---- MODULE Spec2Model ----
(***************************************************************************)
(* Model of the zerosol confidential-payment program (freenetcoder/        *)
(* gargantua): the instruction handlers of src/src/processor.rs over the   *)
(* account records of src/src/state.rs, with the group arithmetic of       *)
(* src/src/utils.rs and src/src/curve_ops.rs.                              *)
(*                                                                         *)
(* Group elements.  The Ristretto group has prime order GroupOrder and is  *)
(* generated by the basepoint, so every point is k*G for exactly one       *)
(* k < GroupOrder.  A point is modelled by that k, a scalar by its value;  *)
(* both are written as the 32 little-endian bytes of Scalar::as_bytes().   *)
(* Point addition is addition mod GroupOrder, identity is 0, G is 1.       *)
(* The canonical 32-byte point encoding is a bijection on points; the      *)
(* all-zero encoding decodes to the identity.                              *)
(***************************************************************************)
EXTENDS Integers, Sequences, FiniteSets, TLC

ScalarLen == 32

\* A value below 2^256 is held as NumLimbs little-endian limbs of three bytes.
LimbBase == 2 ^ 24

NumLimbs == (ScalarLen + 2) \div 3

Idx == 1..NumLimbs

\* The limbs of the little-endian byte string b (bytes past its end are 0).
FromBytes(b) ==
    LET byte(i) == IF i <= Len(b) THEN b[i] ELSE 0
    IN  SubSeq([ j \in Idx |-> byte(3 * j - 2) + 256 * byte(3 * j - 1)
                                 + 65536 * byte(3 * j) ], 1, NumLimbs)

\* Byte i (from 1) of the little-endian encoding of s (Scalar::as_bytes()).
ByteOf(s, i) == (s[((i - 1) \div 3) + 1] \div (256 ^ ((i - 1) % 3))) % 256

\* Scalar::from(k) for a small k.
ScalarFromU64(k) == FromBytes(<< k % 256, (k \div 256) % 256, (k \div 65536) % 256,
                                 k \div 16777216 >>)

Zero == ScalarFromU64(0)

One == ScalarFromU64(1)

\* The order of the Ristretto group, 2^252 + 27742317777372353535851937790883648493.
GroupOrder ==
    FromBytes(<< 237, 211, 245, 92, 26, 99, 18, 88, 214, 156, 247, 162, 222, 249,
                 222, 20, 0, 0, 0, 0, 0, 0, 0, 0, 0, 0, 0, 0, 0, 0, 0, 16 >>)

\* a + b, limb by limb (a, b < 2^254, so no carry leaves the top limb).  The
\* carry into limb i is 1 when a lower limb j overflows and every limb between
\* j and i passes a carry on.
AddLimbs(a, b) ==
    LET carry(i) ==
            \E j \in 1..(i - 1) :
                /\ a[j] + b[j] >= LimbBase
                /\ \A k \in (j + 1)..(i - 1) : a[k] + b[k] = LimbBase - 1
    IN  SubSeq([ i \in Idx |->
                   (a[i] + b[i] + (IF carry(i) THEN 1 ELSE 0)) % LimbBase ],
               1, NumLimbs)

\* a - b, limb by limb, for a >= b.  Limb i borrows from limb i + 1 when it, or
\* a lower limb with equal limbs between, has a[j] < b[j].
SubLimbs(a, b) ==
    LET borrow(i) ==
            \E j \in 1..(i - 1) :
                /\ a[j] < b[j]
                /\ \A k \in (j + 1)..(i - 1) : a[k] = b[k]
    IN  SubSeq([ i \in Idx |->
                   (a[i] - b[i] - (IF borrow(i) THEN 1 ELSE 0) + LimbBase)
                       % LimbBase ],
               1, NumLimbs)

\* a >= b: no limb has a[i] < b[i] with all higher limbs equal.
Geq(a, b) ==
    ~ \E i \in Idx : a[i] < b[i] /\ \A j \in (i + 1)..NumLimbs : a[j] = b[j]

\* Reduction of a value below 2 * GroupOrder.
Reduce(a) == IF Geq(a, GroupOrder) THEN SubLimbs(a, GroupOrder) ELSE a

\* Scalar addition / point addition (RistrettoPoint + RistrettoPoint).
AddMod(a, b) == Reduce(AddLimbs(a, b))

\* RistrettoPoint::double.
Double(a) == AddMod(a, a)

\* Scalar negation / point negation.
NegMod(a) == IF a = Zero THEN Zero ELSE SubLimbs(GroupOrder, a)

\* x is a value of NumLimbs limbs: true of every scalar and point.  TLC
\* evaluates the argument of an operator when it is first used; a loop below
\* is written as its first half followed by its second half, with this test
\* between the two, so that the value the first half leaves is evaluated
\* before the second half starts.
Evaluated(x) == Len(x) = NumLimbs

\* Bit i (from 0) of the little-endian encoding of s.
BitOf(s, i) == (ByteOf(s, (i \div 8) + 1) \div (2 ^ (i % 8))) % 2

\* One step of double-and-add: 2 * acc, plus P when the bit is set.
MulStep(P, acc, bit) ==
    LET d == IF acc = Zero THEN Zero ELSE Double(acc)
    IN  IF bit = 1 THEN AddMod(d, P) ELSE d

\* The steps for the bits hi down to lo of s, from acc.
RECURSIVE MulBits(_, _, _, _, _)
MulBits(P, s, hi, lo, acc) ==
    IF hi = lo THEN MulStep(P, acc, BitOf(s, hi))
    ELSE LET mid == (hi + lo + 1) \div 2
             upper == MulBits(P, s, hi, mid, acc)
         IN  IF ~Evaluated(upper) THEN upper
             ELSE MulBits(P, s, mid - 1, lo, upper)

\* point * scalar of curve25519_dalek: s * P, by double-and-add from the top
\* bit of s down.
PointMul(P, s) == MulBits(P, s, 8 * ScalarLen - 1, 0, Zero)

\* The function x |-> F(x) on the finite set S, as an explicit table, so that
\* each value is computed once.
RECURSIVE Tabulate(_, _)
Tabulate(F(_), S) ==
    IF S = {} THEN << >>
    ELSE LET x == CHOOSE y \in S : TRUE
         IN  Tabulate(F, S \ {x}) @@ (x :> F(x))

\* G1Point::identity and G1Point::generator.
Identity == Zero

G == One

\* The second Pedersen generator h of get_h_generator / compute_h_generator.
\* The code unwraps the decoding of its 32 bytes, so H is taken to be a point;
\* its discrete logarithm is unknown, and the model fixes one value for it.
H ==
    FromBytes(<< 157, 226, 186, 12, 72, 83, 233, 182, 16, 154, 174, 62, 83, 5,
                 151, 124, 74, 188, 108, 77, 198, 177, 189, 147, 202, 204, 188,
                 206, 170, 167, 29, 11 >>)

\* The number of entries of PrecomputedTable::table.
TableSize == 15

\* PrecomputedTable::new: table[0] = base and table[i] = table[i - 1] + base;
\* the first n entries (numbered from 1 here, so that entry n is n * base).
RECURSIVE TableNew(_, _)
TableNew(base, n) ==
    IF n = 1 THEN << base >>
    ELSE LET table == TableNew(base, n - 1)
         IN  Append(table, AddMod(table[n - 1], base))

PrecomputedTableNew(base) == [ base |-> base, table |-> TableNew(base, TableSize) ]

\* n times "result = result.double()".
RECURSIVE DoubleTimes(_, _)
DoubleTimes(n, result) ==
    IF n = 0 \/ ~Evaluated(result) THEN result
    ELSE DoubleTimes(n - 1, Double(result))

\* The body of the loop of PrecomputedTable::scalar_mul for one byte: the high
\* nibble's table entry added, four doublings, the low nibble's table entry
\* added, four doublings.
TableByte(self, result, byte) ==
    LET high_nibble == byte \div 16
        low_nibble == byte % 16
        r1 == IF high_nibble > 0
              THEN AddMod(result, self.table[high_nibble]) ELSE result
        d4 == DoubleTimes(4, r1)
        r2 == IF low_nibble > 0
              THEN AddMod(d4, self.table[low_nibble]) ELSE d4
    IN  DoubleTimes(4, r2)

\* The loop of PrecomputedTable::scalar_mul over bytes lo..hi of
\* scalar.as_bytes(), in their (little-endian) order, from result.
RECURSIVE TableLoop(_, _, _, _, _)
TableLoop(self, scalar, lo, hi, result) ==
    IF lo = hi THEN TableByte(self, result, ByteOf(scalar, lo))
    ELSE LET mid == (lo + hi) \div 2
             first == TableLoop(self, scalar, lo, mid, result)
         IN  IF ~Evaluated(first) THEN first
             ELSE TableLoop(self, scalar, mid + 1, hi, first)

\* PrecomputedTable::scalar_mul, starting from the identity.
TableScalarMul(self, scalar) == TableLoop(self, scalar, 1, ScalarLen, Identity)

\* CurveOpsManager::new: the tables of the generator and of h.
generator_table == PrecomputedTableNew(G)

h_generator_table == PrecomputedTableNew(H)

\* CurveOpsManager::fast_scalar_mul.
FastScalarMul(point, scalar) ==
    IF point = G THEN TableScalarMul(generator_table, scalar)
    ELSE IF point = h_generator_table.base
         THEN TableScalarMul(h_generator_table, scalar)
    ELSE PointMul(point, scalar)

\* CurveOpsManager::pedersen_commit.
CurvePedersenCommit(value, blinding) ==
    LET value_part == TableScalarMul(generator_table, value)
        blinding_part == TableScalarMul(h_generator_table, blinding)
    IN  AddMod(value_part, blinding_part)

\* CurveOpsManager::cached_point_add: p1 + p2 (the cache maps the SHA-256 of
\* the two encodings to the sum it was computed from).
CachedPointAdd(p1, p2) == AddMod(p1, p2)

\* G1Point::add, G1Point::mul, G1Point::neg with the curve-ops manager that
\* lib.rs initialises before every instruction.
PointAdd(p, q) == CachedPointAdd(p, q)

G1Mul(p, scalar) == FastScalarMul(p, scalar)

PointNeg(p) == NegMod(p)

\* utils::pedersen_commit.
PedersenCommit(value, blinding) == CurvePedersenCommit(value, blinding)

\* utils::pedersen_commit where no curve-ops manager was initialised:
\* g.mul(value).add(&h.mul(blinding)) on the curve itself.
PedersenCommitFallback(value, blinding) ==
    AddMod(PointMul(G, value), PointMul(H, blinding))

\* ------------------------------------------------------------------------
\* Schnorr registration signature (utils::verify_schnorr_signature).

\* The scalars and points used as inputs.
Scalar(k) == ScalarFromU64(k)

PkA == Scalar(7)

PkB == Scalar(11)

\* hash_to_scalar(SHA-256(message || public_key || k)), with the program id as
\* message.  SHA-256 is a fixed function; the model fixes its value on the
\* commitment k = G under each of the two public keys and lets every other
\* input hash to HashElse, a value no instruction presents as challenge.
HashElse == Scalar(251)

SchnorrHash(public_key, k) ==
    IF public_key = PkA /\ k = G THEN Scalar(3)
    ELSE IF public_key = PkB /\ k = G THEN Scalar(5)
    ELSE HashElse

verify_schnorr_signature(public_key, challenge, response) ==
    LET k == PointAdd(G1Mul(G, response), G1Mul(public_key, NegMod(challenge)))
    IN  SchnorrHash(public_key, k) = challenge

\* Responses: two that make the code's k equal G for (PkA, 3) and (PkB, 5),
\* the response r + c * sk = 1 + 3 * 7 of the textbook signer for (PkA, 3),
\* and one unrelated to any key.
ResponseA ==
    FromBytes(<< 98, 0, 0, 0, 0, 0, 0, 0, 0, 0, 0, 0, 0, 0, 0, 0, 127, 213, 186,
                 115, 166, 44, 160, 160, 219, 112, 159, 1, 121, 97, 178, 13 >>)

ResponseB ==
    FromBytes(<< 216, 0, 0, 0, 0, 0, 0, 0, 0, 0, 0, 0, 0, 0, 0, 1, 25, 194, 45,
                 61, 152, 14, 197, 77, 164, 248, 57, 227, 230, 246, 173, 3 >>)

RegisterInputs ==
    { [public_key |-> PkA, challenge |-> Scalar(3), response |-> ResponseA],
      [public_key |-> PkB, challenge |-> Scalar(5), response |-> ResponseB],
      [public_key |-> PkA, challenge |-> Scalar(3), response |-> Scalar(22)],
      [public_key |-> PkA, challenge |-> Scalar(2), response |-> Scalar(3)] }

\* The signature check of each input, computed once.
SchnorrVerdict ==
    Tabulate(LAMBDA r : verify_schnorr_signature(r.public_key, r.challenge,
                                                 r.response),
             RegisterInputs)

\* ------------------------------------------------------------------------
\* Range proofs (bulletproof.rs, constraint_system.rs).

\* A 32-byte string that is no canonical point encoding (G1Point::from_bytes
\* returns an error on it).
InvalidEncoding == << >>

Decodes(bytes) == bytes # InvalidEncoding

\* A proof as the verifier sees it: whether all of its points decode, the
\* lengths of l_points and r_points, and the outcome of the two checks that
\* depend on the Fiat-Shamir challenges (SHA-256 values): t_hat against
\* compute_t_hat, and the final equation of verify_inner_product.
Proof(decodes, l_len, r_len, t_hat_ok, ip_ok) ==
    [ decodes |-> decodes, l_len |-> l_len, r_len |-> r_len,
      t_hat_ok |-> t_hat_ok, ip_ok |-> ip_ok ]

ProofInputs ==
    { Proof(TRUE, 5, 5, TRUE, TRUE), Proof(TRUE, 5, 5, FALSE, TRUE),
      Proof(TRUE, 5, 5, TRUE, FALSE), Proof(TRUE, 5, 4, TRUE, TRUE),
      Proof(TRUE, 4, 4, TRUE, TRUE), Proof(FALSE, 5, 5, TRUE, TRUE) }

\* Scalar::from(1u64 << i), for i < 64.
Pow2Scalar(i) ==
    FromBytes([ j \in 1..ScalarLen |-> IF j = (i \div 8) + 1 THEN 2 ^ (i % 8) ELSE 0 ])

\* SpecializedOps::verify_range_constraints: no commitment is the identity.
verify_range_constraints(commitments) ==
    \A j \in 1..Len(commitments) : commitments[j] # Identity

\* RangeConstraintVerifier::verify_bit_constraint with the curve-ops manager
\* initialised: verify_range_constraints of [commitment, commitment - g].
verify_bit_constraint(commitment) ==
    verify_range_constraints(<< commitment, PointAdd(commitment, PointNeg(G)) >>)

\* The loop "sum_commitment = sum_commitment + bit_commitment * 2^i" over the
\* bit commitments lo..hi (numbered from 0), all of which verify_range_proof
\* sets to the commitment itself, from sum_commitment.
RECURSIVE BitSum(_, _, _, _)
BitSum(commitment, lo, hi, sum_commitment) ==
    IF lo = hi
    THEN PointAdd(sum_commitment, G1Mul(commitment, Pow2Scalar(lo)))
    ELSE LET mid == (lo + hi) \div 2
             first == BitSum(commitment, lo, mid, sum_commitment)
         IN  IF ~Evaluated(first) THEN first
             ELSE BitSum(commitment, mid + 1, hi, first)

\* A range constraint check that stops after the bit constraints, without
\* comparing the weighted sum of the bit commitments with the commitment.
RangeConstraintBitsOnly(commitment, bit_length) ==
    IF bit_length = 0 THEN Identity = commitment
    ELSE verify_bit_constraint(commitment)

\* RangeConstraintVerifier::verify_range_constraint on the proof that
\* verify_range_proof builds (bit_length copies of the commitment).
verify_range_constraint(commitment, bit_length) ==
    IF bit_length = 0 THEN Identity = commitment
    ELSE /\ verify_bit_constraint(commitment)
         /\ BitSum(commitment, 0, bit_length - 1, Identity) = commitment

\* The width of usize.
UsizeBits == 64

\* A usize below 2^31 as three limbs of 24 bits, least significant first.
Usize(k) == << k % LimbBase, k \div LimbBase, 0 >>

\* 1 << log_n on usize, in limbs: a shift by UsizeBits or more aborts in a
\* build with overflow checks and shifts by log_n mod UsizeBits in a build
\* without.
ShiftLeftOne(log_n) ==
    LET shift == log_n % UsizeBits
    IN  [ j \in 1..3 |-> IF j = (shift \div 24) + 1 THEN 2 ^ (shift % 24) ELSE 0 ]

\* BulletproofVerifier::verify_range_proof for a verifier built with n
\* generators: "Err", "False" or "True", or "Panic" where the shift aborts.
\* range_ok is verify_range_constraint(commitment, bit_length);
\* overflow_checks is the build's setting.
verify_range_proof(n, commitment, proof, range_ok, bit_length, overflow_checks) ==
    IF bit_length > n THEN "Err"
    ELSE IF proof.l_len # proof.r_len THEN "Err"
    ELSE IF overflow_checks /\ proof.l_len >= UsizeBits THEN "Panic"
    ELSE IF ShiftLeftOne(proof.l_len) # Usize(bit_length) THEN "Err"
    ELSE IF ~range_ok THEN "False"
    ELSE IF ~verify_range_constraints(<< commitment >>) THEN "False"
    ELSE IF ~proof.t_hat_ok THEN "False"
    ELSE IF proof.ip_ok THEN "True" ELSE "False"

\* ------------------------------------------------------------------------
\* Bounds of the model.

NumAccounts == 2

NumNonceAccounts == 2

NumNonces == 2

MaxTime == 2

MaxSteps == 3

\* Account addresses: a zerosol account and its pending account share one
\* index; nonce accounts have their own.
Acct == 1..NumAccounts

NonceAcct == 1..NumNonceAccounts

Nonces == 1..NumNonces

\* ------------------------------------------------------------------------
\* Inputs.

\* MAX_TRANSFER_AMOUNT = 2^32 - 1, and 2^32.  A u64 amount is written as the
\* scalar Scalar::from(amount).
MAX_TRANSFER_AMOUNT == FromBytes(<< 255, 255, 255, 255 >>)

MaxPlusOne == FromBytes(<< 0, 0, 0, 0, 1 >>)

Amounts == { Scalar(0), Scalar(1), Scalar(5), MAX_TRANSFER_AMOUNT, MaxPlusOne }

\* Amounts above MAX_TRANSFER_AMOUNT: 2^32, 2^32 + 1, 2^63 and 2^64 - 1.
OutOfRangeAmounts ==
    { MaxPlusOne, FromBytes(<< 1, 0, 0, 0, 1 >>),
      FromBytes(<< 0, 0, 0, 0, 0, 0, 0, 128 >>),
      FromBytes(<< 255, 255, 255, 255, 255, 255, 255, 255 >>) }

\* a >= b on u64.
AmountGeq(a, b) == Geq(a, b)

\* a > b on u64.
AmountGt(a, b) == ~Geq(b, a)

EpochLengths == { 0, 1, 2 }

Fees == { Scalar(0), Scalar(1) }

\* Commitments presented by Transfer instructions.
C1 == Scalar(9)

C2 == Scalar(13)

D1 == Scalar(17)

\* ops.pedersen_commit(amount, 0) and ops.pedersen_commit(-amount, 0), computed
\* once per amount.
AmountCommitment == Tabulate(LAMBDA a : CurvePedersenCommit(a, Zero), Amounts)

NegAmountCommitment ==
    Tabulate(LAMBDA a : CurvePedersenCommit(NegMod(a), Zero), Amounts)

\* g.mul(fee), computed once per fee.
FeeCommitment == Tabulate(LAMBDA f : G1Mul(G, f), Fees)

\* The points verify_range_proof is called on, and the verdict of the range
\* constraint verifier on each (for 32 bits), computed once.
RangeProofPoints ==
    { C1, C2, D1, G, H, Identity } \cup { AmountCommitment[a] : a \in Amounts }

RangeConstraintVerdict ==
    Tabulate(LAMBDA c : verify_range_constraint(c, 32), RangeProofPoints)

\* The verdict of the range constraint verifier for other bit lengths (2, 8
\* and 16, with proofs of 1, 3 and 4 rounds), computed once.
RangeConstraintByLength ==
    Tabulate(LAMBDA x : verify_range_constraint(x[2], 2 ^ x[1]),
             { 1, 3, 4 } \X { C1, G, H, Identity })

\* BulletproofVerifier::new(n).verify_range_proof(c, p, 32) on those points
\* (the proofs have fewer than UsizeBits rounds, where the builds agree).
RangeVerdict(n, c, p) ==
    verify_range_proof(n, c, p, RangeConstraintVerdict[c], 32, FALSE)

\* ------------------------------------------------------------------------
\* Records of state.rs.  A record with exists = FALSE is an address with no
\* account data (data_len() = 0, and try_from_slice fails on it).

\* ZerosolAccount::new.
ZerosolAccountNew(public_key) ==
    [ exists |-> TRUE, commitment_left |-> Identity, commitment_right |-> Identity,
      public_key |-> public_key, last_rollover |-> 0, is_registered |-> FALSE ]

\* PendingAccount::new.
PendingAccountNew ==
    [ exists |-> TRUE, commitment_left |-> Identity, commitment_right |-> Identity ]

\* NonceState::new.
NonceStateNew(nonce, epoch) ==
    [ exists |-> TRUE, nonce |-> nonce, epoch |-> epoch, used |-> FALSE ]

\* GlobalState::new (the fields the handlers read).
GlobalStateNew(epoch_length, fee) ==
    [ exists |-> TRUE, epoch_length |-> epoch_length, fee |-> fee ]

NoAccount == [ ZerosolAccountNew(Zero) EXCEPT !.exists = FALSE ]

NoPending == [ PendingAccountNew EXCEPT !.exists = FALSE ]

NoNonce == [ NonceStateNew(0, 0) EXCEPT !.exists = FALSE ]

NoGlobal == [ GlobalStateNew(0, Zero) EXCEPT !.exists = FALSE ]

\* The account created by system_instruction::create_account: zeroed data.
CreatedNonce == NonceStateNew(0, 0)

\* ------------------------------------------------------------------------
\* What an instruction leaves: the account data as the handler wrote it, the
\* ProgramResult, and the token instruction it issued to the host.

NoToken == [ kind |-> "none", amount |-> Zero ]

Token(kind, amount) == [ kind |-> kind, amount |-> amount ]

Res(ledger, result, token) == [ ledger |-> ledger, result |-> result, token |-> token ]

Fail(ledger, result) == Res(ledger, result, NoToken)

\* clock.unix_timestamp as u64 / global_state.epoch_length (epoch_length > 0).
Epoch(t, global_state) == t \div global_state.epoch_length

\* ------------------------------------------------------------------------
\* Handlers of processor.rs.  L is the ledger: accounts, pendings, nonces and
\* the global state; t is the host clock.

\* rollover_account: the in-memory ZerosolAccount it leaves and the pending
\* account data it writes.
rollover_account(zerosol_account, pending_account, current_epoch) ==
    IF zerosol_account.last_rollover >= current_epoch
    THEN [ account |-> zerosol_account, pending |-> pending_account ]
    ELSE [ account |->
             [ zerosol_account EXCEPT
                 !.commitment_left =
                     CachedPointAdd(@, pending_account.commitment_left),
                 !.commitment_right =
                     CachedPointAdd(@, pending_account.commitment_right),
                 !.last_rollover = current_epoch ],
           pending |-> PendingAccountNew ]

\* process_initialize.
process_initialize(L, signer, epoch_length, fee) ==
    IF ~signer THEN Fail(L, "MissingRequiredSignature")
    ELSE IF L.global.exists THEN Fail(L, "AccountAlreadyInUse")
    ELSE Res([ L EXCEPT !.global = GlobalStateNew(epoch_length, fee) ], "Ok", NoToken)

\* A registration that leaves the account as ZerosolAccount::new(pk), not
\* marked registered.
RegisterAccountUnmarked(public_key) == ZerosolAccountNew(public_key)

\* What process_register serialises into the two new accounts.
RegisterAccount(public_key) ==
    [ ZerosolAccountNew(public_key) EXCEPT !.is_registered = TRUE ]

\* A registration that leaves the pending account as PendingAccount::new().
RegisterPendingUnset(public_key) == PendingAccountNew

RegisterPending(public_key) ==
    [ PendingAccountNew EXCEPT !.commitment_left = public_key,
                               !.commitment_right = G ]

\* A check of is_registered that lets every account through.
NotRegisteredIgnored(account) == FALSE

\* !zerosol_account.is_registered, on a ZerosolAccount that was loaded.
NotRegistered(account) == ~account.is_registered

\* The data of a program-owned account as system_instruction::create_account
\* leaves it, all bytes zero: a ZerosolAccount with is_registered = false, and
\* a PendingAccount.
AllocatedAccount == ZerosolAccountNew(Zero)

AllocatedPending == PendingAccountNew

\* A signature check placed after the two create_account calls.
RegisterRejectedLate(L, k) ==
    Fail([ L EXCEPT !.accounts[k] = [ ZerosolAccountNew(Zero) EXCEPT !.exists = TRUE ],
                    !.pendings[k] = PendingAccountNew ],
         "InvalidRegistrationSignature")

\* The return of process_register on a signature that does not verify: it
\* comes before any account is created.
RegisterRejected(L, k) == Fail(L, "InvalidRegistrationSignature")

\* process_register on the account pair k.
process_register(L, k, signer, inp) ==
    IF ~signer THEN Fail(L, "MissingRequiredSignature")
    ELSE IF ~SchnorrVerdict[inp] THEN RegisterRejected(L, k)
    ELSE IF L.accounts[k].exists THEN Fail(L, "AccountAlreadyInUse")
    ELSE IF L.pendings[k].exists
         THEN Fail([ L EXCEPT !.accounts[k] =
                         [ ZerosolAccountNew(Zero) EXCEPT !.exists = TRUE ] ],
                   "AccountAlreadyInUse")
    ELSE Res([ L EXCEPT !.accounts[k] = RegisterAccount(inp.public_key),
                        !.pendings[k] = RegisterPending(inp.public_key) ],
             "Ok", NoToken)

\* A process_fund that never rolls over.
FundRolloverSkipped(zerosol_account, current_epoch) == FALSE

\* The test of process_fund before it calls rollover_account.
FundRolloverDue(zerosol_account, current_epoch) ==
    zerosol_account.last_rollover < current_epoch

\* A process_fund that sets the new commitment on the ZerosolAccount as well
\* and serialises it.
FundStoreSettled(L, k, zerosol_account, pending_account) ==
    [ L EXCEPT !.accounts[k] =
                   [ zerosol_account EXCEPT
                       !.commitment_left = pending_account.commitment_left ],
               !.pendings[k] = pending_account ]

\* The account data process_fund has written when it returns Ok: the pending
\* account alone (the ZerosolAccount it loaded is not serialised).
FundStore(L, k, zerosol_account, pending_account) ==
    [ L EXCEPT !.pendings[k] = pending_account ]

\* process_fund on the account pair k; token_ok is the outcome of the token
\* program's transfer.
process_fund(L, t, k, signer, amount, token_ok) ==
    LET acc == L.accounts[k]
    IN  IF ~signer THEN Fail(L, "MissingRequiredSignature")
        ELSE IF AmountGt(amount, MAX_TRANSFER_AMOUNT)
             THEN Fail(L, "TransferAmountOutOfRange")
        ELSE IF ~acc.exists THEN Fail(L, "BorshIoError")
        ELSE IF NotRegistered(acc) THEN Fail(L, "AccountNotRegistered")
        ELSE IF ~L.global.exists THEN Fail(L, "BorshIoError")
        ELSE IF L.global.epoch_length = 0 THEN Fail(L, "Panic")
        ELSE
          LET current_epoch == Epoch(t, L.global)
              ro == IF FundRolloverDue(acc, current_epoch)
                    THEN rollover_account(acc, L.pendings[k], current_epoch)
                    ELSE [ account |-> acc, pending |-> L.pendings[k] ]
              L1 == [ L EXCEPT !.pendings[k] = ro.pending ]
              new_left == PointAdd(ro.pending.commitment_left,
                                   AmountCommitment[amount])
          IN  IF ~token_ok THEN Fail(L1, "TokenTransferFailed")
              ELSE Res(FundStore(L1, k, ro.account,
                                 [ ro.pending EXCEPT !.commitment_left = new_left ]),
                       "Ok", Token("deposit", amount))

\* A RollOver that serialises the new settled commitments alone: neither the
\* cleared pending account nor last_rollover.
RollOverStoreSettled(L, k, ro) ==
    [ L EXCEPT !.accounts[k] =
        [ ro.account EXCEPT !.last_rollover = L.accounts[k].last_rollover ] ]

\* The account data process_rollover has written when it returns Ok.
RollOverStore(L, k, ro) == [ L EXCEPT !.pendings[k] = ro.pending ]

\* process_rollover on the account pair k.
process_rollover(L, t, k) ==
    IF ~L.global.exists THEN Fail(L, "BorshIoError")
    ELSE IF L.global.epoch_length = 0 THEN Fail(L, "Panic")
    ELSE IF ~L.accounts[k].exists THEN Fail(L, "BorshIoError")
    ELSE Res(RollOverStore(L, k,
                 rollover_account(L.accounts[k], L.pendings[k], Epoch(t, L.global))),
             "Ok", NoToken)

\* verify_sufficient_balance.
verify_sufficient_balance(account_commitment, burn_commitment) ==
    ~(account_commitment = Identity /\ burn_commitment # Identity)

\* verify_burn_proof on the in-memory account.
verify_burn_proof(proof, account, amount) ==
    /\ verify_range_constraints(<< account.commitment_left >>)
    /\ proof.decodes
    /\ ~AmountGt(amount, MAX_TRANSFER_AMOUNT)
    /\ RangeVerdict(32, AmountCommitment[amount], proof) = "True"
    /\ verify_sufficient_balance(account.commitment_left, AmountCommitment[amount])

\* The nonce check of process_transfer and process_burn: "seen" when the
\* nonce account holds used = true; otherwise the nonce account as it is, or
\* as create_account leaves it.
NonceCheck(L, n) ==
    IF L.nonces[n].exists
    THEN IF L.nonces[n].used THEN [ seen |-> TRUE, ledger |-> L ]
         ELSE [ seen |-> FALSE, ledger |-> L ]
    ELSE [ seen |-> FALSE, ledger |-> [ L EXCEPT !.nonces[n] = CreatedNonce ] ]

\* "Mark nonce as used".
UsedNonce(nonce, current_epoch) ==
    [ NonceStateNew(nonce, current_epoch) EXCEPT !.used = TRUE ]

\* A process_burn that serialises the ZerosolAccount it rolled over.
BurnRolloverStoredAccount(L1, k, ro) ==
    [ L1 EXCEPT !.accounts[k] = ro.account, !.pendings[k] = ro.pending ]

\* The account data process_burn has written when its rollover returns: the
\* pending account that rollover_account serialised.
BurnRollover(L1, k, ro) == [ L1 EXCEPT !.pendings[k] = ro.pending ]

\* process_burn on the account pair k with nonce account n.
process_burn(L, t, k, n, signer, amount, nonce, proof, token_ok) ==
    IF ~signer THEN Fail(L, "MissingRequiredSignature")
    ELSE IF AmountGt(amount, MAX_TRANSFER_AMOUNT)
         THEN Fail(L, "TransferAmountOutOfRange")
    ELSE IF NonceCheck(L, n).seen THEN Fail(L, "NonceAlreadySeen")
    ELSE
      LET L1 == NonceCheck(L, n).ledger
          acc == L1.accounts[k]
      IN  IF ~L1.global.exists THEN Fail(L1, "BorshIoError")
          ELSE IF L1.global.epoch_length = 0 THEN Fail(L1, "Panic")
          ELSE IF ~acc.exists THEN Fail(L1, "BorshIoError")
          ELSE IF NotRegistered(acc) THEN Fail(L1, "AccountNotRegistered")
          ELSE
            LET current_epoch == Epoch(t, L1.global)
                ro == IF acc.last_rollover < current_epoch
                      THEN rollover_account(acc, L1.pendings[k], current_epoch)
                      ELSE [ account |-> acc, pending |-> L1.pendings[k] ]
                L2 == BurnRollover(L1, k, ro)
                new_left == PointAdd(ro.pending.commitment_left,
                                     NegAmountCommitment[amount])
                L3 == [ L2 EXCEPT !.pendings[k].commitment_left = new_left ]
            IN  IF ~verify_burn_proof(proof, ro.account, amount)
                THEN Fail(L2, "BurnProofVerificationFailed")
                ELSE IF ~token_ok THEN Fail(L3, "TokenTransferFailed")
                ELSE Res([ L3 EXCEPT !.nonces[n] = UsedNonce(nonce, current_epoch) ],
                         "Ok", Token("withdraw", amount))

\* verify_epoch_constraints: no public key is the identity.
verify_epoch_constraints(public_keys) ==
    \A j \in 1..Len(public_keys) : public_keys[j] # Identity

\* verify_transfer_proof (BulletproofVerifier::new(64), 32 bits).
verify_transfer_proof(proof, commitments_c, commitment_d, public_keys) ==
    /\ proof.decodes
    /\ \A j \in 1..Len(commitments_c) :
          /\ Decodes(commitments_c[j])
          /\ RangeVerdict(64, commitments_c[j], proof) = "True"
    /\ Decodes(commitment_d)
    /\ RangeVerdict(64, commitment_d, proof) = "True"
    /\ verify_epoch_constraints(public_keys)

\* The batch validation at the head of process_transfer: it rejects when all
\* of commitments_c decode and one of them is the identity.
TransferPrecheck(commitments_c) ==
    (\A j \in 1..Len(commitments_c) : Decodes(commitments_c[j]))
        => verify_range_constraints(commitments_c)

\* The loop of process_transfer over the participant account pairs, from
\* pair i on: the ledger it leaves and the error it stops with, if any.
RECURSIVE TransferSlots(_, _, _, _)
TransferSlots(L, i, inp, current_epoch) ==
    IF i > Len(inp.slots) \/ i > Len(inp.public_keys) THEN Fail(L, "Ok")
    ELSE
      LET k == inp.slots[i]
          acc == L.accounts[k]
          ro == IF acc.last_rollover < current_epoch
                THEN rollover_account(acc, L.pendings[k], current_epoch)
                ELSE [ account |-> acc, pending |-> L.pendings[k] ]
          L1 == [ L EXCEPT !.pendings[k] = ro.pending ]
      IN  IF ~acc.exists THEN Fail(L, "BorshIoError")
          ELSE IF NotRegistered(acc) THEN Fail(L, "AccountNotRegistered")
          ELSE IF i > Len(inp.commitments_c) THEN Fail(L1, "Panic")
          ELSE IF ~Decodes(inp.commitments_c[i]) \/ ~Decodes(inp.commitment_d)
               THEN Fail(L1, "InvalidAccountData")
          ELSE TransferSlots(
                 [ L1 EXCEPT
                     !.pendings[k].commitment_left =
                         CachedPointAdd(@, inp.commitments_c[i]),
                     !.pendings[k].commitment_right =
                         CachedPointAdd(@, inp.commitment_d) ],
                 i + 1, inp, current_epoch)

\* process_transfer from "Update beneficiary account with fee" on, on the
\* ledger L1 the nonce check left.
TransferAccounts(L1, t, inp) ==
    LET ben == L1.accounts[inp.b]
    IN  IF ~ben.exists THEN Fail(L1, "BorshIoError")
        ELSE IF NotRegistered(ben) THEN Fail(L1, "AccountNotRegistered")
        ELSE
          LET current_epoch == Epoch(t, L1.global)
              ro == IF ben.last_rollover < current_epoch
                    THEN rollover_account(ben, L1.pendings[inp.b], current_epoch)
                    ELSE [ account |-> ben, pending |-> L1.pendings[inp.b] ]
              L2 == [ L1 EXCEPT !.pendings[inp.b] =
                        [ ro.pending EXCEPT !.commitment_left =
                            PointAdd(@, FeeCommitment[L1.global.fee]) ] ]
              done == TransferSlots(L2, 1, inp, current_epoch)
          IN  IF done.result # "Ok" THEN done
              ELSE Res([ done.ledger EXCEPT
                           !.nonces[inp.n] = UsedNonce(inp.nonce, current_epoch) ],
                       "Ok", NoToken)

\* process_transfer with beneficiary account pair inp.b, nonce account inp.n
\* and participant account pairs inp.slots.
process_transfer(L, t, inp) ==
    IF ~inp.signer THEN Fail(L, "MissingRequiredSignature")
    ELSE IF ~TransferPrecheck(inp.commitments_c)
         THEN Fail(L, "TransferProofVerificationFailed")
    ELSE IF NonceCheck(L, inp.n).seen THEN Fail(L, "NonceAlreadySeen")
    ELSE
      LET L1 == NonceCheck(L, inp.n).ledger
      IN  IF ~L1.global.exists THEN Fail(L1, "BorshIoError")
          ELSE IF L1.global.epoch_length = 0 THEN Fail(L1, "Panic")
          ELSE IF ~verify_transfer_proof(inp.proof, inp.commitments_c,
                                         inp.commitment_d, inp.public_keys)
               THEN Fail(L1, "TransferProofVerificationFailed")
          ELSE TransferAccounts(L1, t, inp)

\* ------------------------------------------------------------------------
\* Instruction inputs.

\* Transfer: a well-formed instruction over the two account pairs, and the
\* instructions that differ from it in one argument.
TransferArgs(signer, commitments_c, commitment_d, public_keys, slots, proof) ==
    [ signer |-> signer, commitments_c |-> commitments_c,
      commitment_d |-> commitment_d, public_keys |-> public_keys,
      slots |-> slots, proof |-> proof ]

TransferShapes ==
    { TransferArgs(TRUE, << C1, C2 >>, D1, << PkA, PkB >>, << 1, 2 >>, p) :
        p \in ProofInputs }
    \cup { TransferArgs(TRUE, c, D1, << PkA, PkB >>, << 1, 2 >>,
                        Proof(TRUE, 5, 5, TRUE, TRUE)) :
        c \in { << >>, << C1 >>, << Identity, C2 >>, << InvalidEncoding, C2 >>,
                << G, H >> } }
    \cup { TransferArgs(TRUE, << C1, C2 >>, d, << PkA, PkB >>, << 1, 2 >>,
                        Proof(TRUE, 5, 5, TRUE, TRUE)) :
        d \in { Identity, InvalidEncoding } }
    \cup { TransferArgs(TRUE, << C1, C2 >>, D1, ps[1], ps[2],
                        Proof(TRUE, 5, 5, TRUE, TRUE)) :
        ps \in { << << >>, << >> >>, << << PkA >>, << 1 >> >>,
                 << << PkA, Identity >>, << 1, 2 >> >>,
                 << << PkB, PkA >>, << 1, 2 >> >>,
                 << << PkA, PkA >>, << 1, 2 >> >>,
                 << << PkA, PkB, Scalar(19) >>, << 1, 2, 1 >> >> } }
    \cup { TransferArgs(FALSE, << C1, C2 >>, D1, << PkA, PkB >>, << 1, 2 >>,
                        Proof(TRUE, 5, 5, TRUE, TRUE)) }

TransferInputs ==
    { [ signer |-> a.signer, commitments_c |-> a.commitments_c,
        commitment_d |-> a.commitment_d, public_keys |-> a.public_keys,
        slots |-> a.slots, proof |-> a.proof, nonce |-> u, n |-> n, b |-> b ] :
        a \in TransferShapes, u \in Nonces, n \in NonceAcct, b \in Acct }

\* Burn: amount, proof, signer flag and token-transfer outcome.
BurnArgs(signer, amount, proof, token_ok) ==
    [ signer |-> signer, amount |-> amount, proof |-> proof, token_ok |-> token_ok ]

BurnInputs ==
    { BurnArgs(TRUE, a, Proof(TRUE, 5, 5, TRUE, TRUE), TRUE) : a \in Amounts }
    \cup { BurnArgs(TRUE, Scalar(1), p, TRUE) : p \in ProofInputs }
    \cup { BurnArgs(FALSE, Scalar(1), Proof(TRUE, 5, 5, TRUE, TRUE), TRUE),
           BurnArgs(TRUE, Scalar(1), Proof(TRUE, 5, 5, TRUE, TRUE), FALSE) }

\* ------------------------------------------------------------------------
\* The Fiat-Shamir transcript (bulletproof.rs).  A transcript is the byte
\* string its Sha256 hasher has absorbed since it was created or last
\* finalised.

\* SHA-256 of a byte string, taken as injective: the digest is known by the
\* bytes that were hashed.  Scalar::from_bytes_mod_order of a digest is taken
\* as injective on digests in the same way.
Sha256(bytes) == [ sha256 |-> bytes ]

\* Scalar::as_bytes: 32 bytes, little-endian.
as_bytes(scalar) == [ i \in 1..ScalarLen |-> ByteOf(scalar, i) ]

\* The canonical encodings of the identity and of the Ristretto basepoint.
CompressedIdentity == [ i \in 1..ScalarLen |-> 0 ]

CompressedG ==
    << 226, 242, 174, 10, 106, 188, 78, 113, 168, 132, 169, 97, 197, 0, 81, 95,
       88, 227, 11, 106, 165, 130, 221, 141, 182, 166, 89, 69, 224, 141, 45, 118 >>

\* G1Point::to_bytes, on the points whose encoding is used here.
to_bytes == (Identity :> CompressedIdentity) @@ (G :> CompressedG)

\* Transcript::new.
TranscriptNew == [ hasher |-> << >> ]

\* hasher.update.
Update(transcript, bytes) == [ transcript EXCEPT !.hasher = @ \o bytes ]

\* Transcript::append_point.
append_point(transcript, label, point) ==
    Update(Update(transcript, label), to_bytes[point])

\* Transcript::append_scalar.
append_scalar(transcript, label, scalar) ==
    Update(Update(transcript, label), as_bytes(scalar))

\* Transcript::challenge_scalar: the scalar, and the transcript it leaves
\* (finalize_reset empties the hasher).
challenge_scalar(transcript, label) ==
    [ scalar |-> Sha256(Update(transcript, label).hasher),
      transcript |-> TranscriptNew ]

\* Calls on a transcript.
AppendPointCall(label, point) ==
    [ op |-> "append_point", label |-> label, payload |-> point ]

AppendScalarCall(label, scalar) ==
    [ op |-> "append_scalar", label |-> label, payload |-> scalar ]

ChallengeCall(label) ==
    [ op |-> "challenge_scalar", label |-> label, payload |-> Zero ]

NoScalar == Sha256(<< -1 >>)

\* One call on a transcript: the transcript it leaves and the scalar it
\* returns (NoScalar for an append).
Call(transcript, c) ==
    IF c.op = "append_point"
    THEN [ scalar |-> NoScalar,
           transcript |-> append_point(transcript, c.label, c.payload) ]
    ELSE IF c.op = "append_scalar"
    THEN [ scalar |-> NoScalar,
           transcript |-> append_scalar(transcript, c.label, c.payload) ]
    ELSE challenge_scalar(transcript, c.label)

\* A sequence of calls on the transcript: the transcript it leaves and the
\* scalars returned, call by call.
RECURSIVE Run(_, _, _)
Run(transcript, scalars, calls) ==
    IF calls = << >> THEN [ transcript |-> transcript, scalars |-> scalars ]
    ELSE LET r == Call(transcript, Head(calls))
         IN  Run(r.transcript, Append(scalars, r.scalar), Tail(calls))

\* Labels: "a", "a\x01", "\x01c", "c".
Labels == { << 97 >>, << 97, 1 >>, << 1, 99 >>, << 99 >> }

\* Scalars appended: 1 and 2^248.
TranscriptScalars == { One, Pow2Scalar(248) }

\* Points appended.
TranscriptPoints == { Identity, G }

TranscriptCalls ==
    { AppendPointCall(l, P) : l \in Labels, P \in TranscriptPoints }
    \cup { AppendScalarCall(l, x) : l \in Labels, x \in TranscriptScalars }
    \cup { ChallengeCall(l) : l \in Labels }

\* The points of a range proof that the verifier absorbs.
ProofPoints(a, s_point, t1, t2) == [ a |-> a, s |-> s_point, t1 |-> t1, t2 |-> t2 ]

ProofPointInputs ==
    { ProofPoints(G, G, G, G), ProofPoints(G, Identity, G, Identity) }

\* The calls of verify_range_proof on its new transcript, up to the
\* challenge x.
VerifierCalls(commitment, proof) ==
    << AppendPointCall(<< 86 >>, commitment),
       AppendPointCall(<< 65 >>, proof.a),
       AppendPointCall(<< 83 >>, proof.s),
       ChallengeCall(<< 121 >>),
       ChallengeCall(<< 122 >>),
       AppendPointCall(<< 84, 49 >>, proof.t1),
       AppendPointCall(<< 84, 50 >>, proof.t2),
       ChallengeCall(<< 120 >>) >>

\* The transcript calls made for an instruction with the given nonce, in the
\* given epoch: verify_transfer_proof and verify_burn_proof hand
\* verify_range_proof the commitment and the proof, and neither the nonce nor
\* the epoch.
InstructionCalls(nonce, epoch, commitment, proof) == VerifierCalls(commitment, proof)

MaxCalls == 3

\* ------------------------------------------------------------------------
\* State: the account data on the ledger, the host clock (unix seconds), the
\* number of instructions processed, and the last instruction: its kind, its
\* account pair k, its amount and public key (Zero when it has none), the
\* clock and the ledger it started from, and what it returned.  ts is a
\* Transcript in use: the calls made on it, the scalars they returned, and
\* the nonce and epoch of the instruction it verifies, if any.  sm is the last
\* scalar multiplication made through the curve-ops manager.  calc is a call
\* of one of the library functions: its arguments and, once made, its result.

VARIABLES accounts, pendings, nonces, global, now, steps, last, ts, sm, calc

vars == << accounts, pendings, nonces, global, now, steps, last, ts, sm, calc >>

Ledger ==
    [ accounts |-> accounts, pendings |-> pendings, nonces |-> nonces,
      global |-> global ]

NoInstruction == [ nonce |-> 0, epoch |-> 0 ]

TranscriptStart ==
    [ transcript |-> TranscriptNew, calls |-> << >>, scalars |-> << >>,
      instruction |-> NoInstruction ]

NoScalarMul == [ op |-> "none", point |-> Identity, scalar |-> Zero, result |-> Identity ]

NoCalc == [ op |-> "none", input |-> << >>, result |-> << >> ]

Init ==
    /\ accounts = [ k \in Acct |-> NoAccount ]
    /\ pendings = [ k \in Acct |-> NoPending ]
    /\ nonces = [ n \in NonceAcct |-> NoNonce ]
    /\ global = NoGlobal
    /\ now = 0
    /\ steps = 0
    /\ last = [ op |-> "None", k |-> 0, amount |-> Zero, public_key |-> Zero,
                t |-> 0, pre |-> << >>, result |-> "Ok", token |-> NoToken ]
    /\ ts = TranscriptStart
    /\ sm = NoScalarMul
    /\ calc = NoCalc

\* One instruction op on account pair k, leaving r.
Processed(op, k, amount, public_key, r) ==
    /\ steps < MaxSteps
    /\ steps' = steps + 1
    /\ accounts' = r.ledger.accounts
    /\ pendings' = r.ledger.pendings
    /\ nonces' = r.ledger.nonces
    /\ global' = r.ledger.global
    /\ now' = now
    /\ last' = [ op |-> op, k |-> k, amount |-> amount, public_key |-> public_key,
                 t |-> now, pre |-> Ledger, result |-> r.result,
                 token |-> r.token ]
    /\ ts' = ts
    /\ sm' = sm
    /\ calc' = calc

Initialize ==
    \E signer \in BOOLEAN, epoch_length \in EpochLengths, fee \in Fees :
        Processed("Initialize", 0, Zero, Zero,
                  process_initialize(Ledger, signer, epoch_length, fee))

Register ==
    \E k \in Acct, signer \in BOOLEAN, inp \in RegisterInputs :
        Processed("Register", k, Zero, inp.public_key,
                  process_register(Ledger, k, signer, inp))

Fund ==
    \E k \in Acct, signer \in BOOLEAN, amount \in Amounts, token_ok \in BOOLEAN :
        Processed("Fund", k, amount, Zero,
                  process_fund(Ledger, now, k, signer, amount, token_ok))

Transfer ==
    \E inp \in TransferInputs :
        Processed("Transfer", inp.b, Zero, Zero, process_transfer(Ledger, now, inp))

Burn ==
    \E k \in Acct, n \in NonceAcct, nonce \in Nonces, inp \in BurnInputs :
        Processed("Burn", k, inp.amount, Zero,
                  process_burn(Ledger, now, k, n, inp.signer, inp.amount, nonce,
                               inp.proof, inp.token_ok))

RollOver ==
    \E k \in Acct :
        Processed("RollOver", k, Zero, Zero, process_rollover(Ledger, now, k))

\* The host clock advances.
Tick ==
    /\ now < MaxTime
    /\ now' = now + 1
    /\ UNCHANGED << accounts, pendings, nonces, global, steps, last, ts, sm, calc >>

Next ==
    \/ Initialize
    \/ Register
    \/ Fund
    \/ Transfer
    \/ Burn
    \/ RollOver
    \/ Tick

Spec == Init /\ [][Next]_vars

\* The same program on a ledger where somebody has created the accounts of
\* pair 1 for the program (with the system program) without registering them.
InitAllocated ==
    /\ accounts = [ k \in Acct |-> IF k = 1 THEN AllocatedAccount ELSE NoAccount ]
    /\ pendings = [ k \in Acct |-> IF k = 1 THEN AllocatedPending ELSE NoPending ]
    /\ nonces = [ n \in NonceAcct |-> NoNonce ]
    /\ global = NoGlobal
    /\ now = 0
    /\ steps = 0
    /\ last = [ op |-> "None", k |-> 0, amount |-> Zero, public_key |-> Zero,
                t |-> 0, pre |-> << >>, result |-> "Ok", token |-> NoToken ]
    /\ ts = TranscriptStart
    /\ sm = NoScalarMul
    /\ calc = NoCalc

SpecAllocated == InitAllocated /\ [][Next]_vars

\* ------------------------------------------------------------------------
\* The transcript on its own: calls on one Transcript, and the verifier's
\* calls for an instruction.

\* One call c on the transcript.
Called(c) ==
    /\ Len(ts.calls) < MaxCalls
    /\ LET r == Call(ts.transcript, c)
       IN  ts' = [ ts EXCEPT !.transcript = r.transcript,
                             !.calls = Append(@, c),
                             !.scalars = Append(@, r.scalar) ]
    /\ UNCHANGED << accounts, pendings, nonces, global, now, steps, last, sm, calc >>

AppendPoint == \E l \in Labels, P \in TranscriptPoints : Called(AppendPointCall(l, P))

AppendScalar ==
    \E l \in Labels, x \in TranscriptScalars : Called(AppendScalarCall(l, x))

ChallengeScalar == \E l \in Labels : Called(ChallengeCall(l))

\* verify_range_proof, from Transcript::new() to the challenge x, for an
\* instruction with the given nonce in the given epoch.
VerifyRangeProof ==
    \E nonce \in Nonces, epoch \in 0..MaxTime, commitment \in TranscriptPoints,
       proof \in ProofPointInputs :
        /\ ts = TranscriptStart
        /\ LET calls == InstructionCalls(nonce, epoch, commitment, proof)
               r == Run(TranscriptNew, << >>, calls)
           IN  ts' = [ transcript |-> r.transcript, calls |-> calls,
                       scalars |-> r.scalars,
                       instruction |-> [ nonce |-> nonce, epoch |-> epoch ] ]
        /\ UNCHANGED << accounts, pendings, nonces, global, now, steps, last, sm, calc >>

NextTranscript ==
    \/ AppendPoint
    \/ AppendScalar
    \/ ChallengeScalar
    \/ VerifyRangeProof

SpecTranscript == Init /\ [][NextTranscript]_vars

\* ------------------------------------------------------------------------
\* Scalar multiplication on its own.

\* Scalars: 0..15, the powers 2^(8j), 255 * 2^(8j) for j < 31, and l - 1.
ScalarMulInputs ==
    { Scalar(k) : k \in 0..15 }
    \cup { Pow2Scalar(8 * j) : j \in 0..(ScalarLen - 1) }
    \cup { FromBytes([ i \in 1..ScalarLen |-> IF i = j THEN 255 ELSE 0 ]) :
             j \in 1..(ScalarLen - 1) }
    \cup { NegMod(One) }

\* The table of the manager for base, or a table built for it.
TableFor(base) ==
    IF base = G THEN generator_table
    ELSE IF base = H THEN h_generator_table
    ELSE PrecomputedTableNew(base)

\* A point and a scalar, not multiplied yet.
InitScalarMul ==
    /\ accounts = [ k \in Acct |-> NoAccount ]
    /\ pendings = [ k \in Acct |-> NoPending ]
    /\ nonces = [ n \in NonceAcct |-> NoNonce ]
    /\ global = NoGlobal
    /\ now = 0
    /\ steps = 0
    /\ last = [ op |-> "None", k |-> 0, amount |-> Zero, public_key |-> Zero,
                t |-> 0, pre |-> << >>, result |-> "Ok", token |-> NoToken ]
    /\ ts = TranscriptStart
    /\ \E point \in { G, H, PkA }, scalar \in ScalarMulInputs :
          sm = [ NoScalarMul EXCEPT !.point = point, !.scalar = scalar ]
    /\ calc = NoCalc

\* PrecomputedTable::scalar_mul on the table for G or H.
TableMul ==
    /\ sm.op = "none"
    /\ sm.point \in { G, H }
    /\ sm' = [ sm EXCEPT !.op = "scalar_mul",
                         !.result = TableScalarMul(TableFor(sm.point), sm.scalar) ]
    /\ UNCHANGED << accounts, pendings, nonces, global, now, steps, last, ts, calc >>

\* CurveOpsManager::fast_scalar_mul on G, H or another point.
FastMul ==
    /\ sm.op = "none"
    /\ sm' = [ sm EXCEPT !.op = "fast_scalar_mul",
                         !.result = FastScalarMul(sm.point, sm.scalar) ]
    /\ UNCHANGED << accounts, pendings, nonces, global, now, steps, last, ts, calc >>

NextScalarMul ==
    \/ TableMul
    \/ FastMul

SpecScalarMul == InitScalarMul /\ [][NextScalarMul]_vars

\* ------------------------------------------------------------------------
\* Scalar arithmetic of the library functions.

\* a * b on Scalar (multiplication mod l); the products by 0, 1 and -1 are
\* written out.
ScalarMul(a, b) ==
    IF a = Zero \/ b = Zero THEN Zero
    ELSE IF a = One THEN b
    ELSE IF b = One THEN a
    ELSE IF a = NegMod(One) THEN NegMod(b)
    ELSE IF b = NegMod(One) THEN NegMod(a)
    ELSE PointMul(a, b)

\* The longest vector given to batch_invert.
MaxInvertLen == 3

\* 1/2 mod l, that is (l + 1) / 2.
InvTwo ==
    FromBytes(<< 247, 233, 122, 46, 141, 49, 9, 44, 107, 206, 123, 81, 239, 124,
                 111, 10, 0, 0, 0, 0, 0, 0, 0, 0, 0, 0, 0, 0, 0, 0, 0, 8 >>)

RECURSIVE Power(_, _)
Power(x, a) == IF a = 0 THEN One ELSE ScalarMul(Power(x, a - 1), x)

\* The scalars 2^a, 2^-a and their negatives for a <= MaxInvertLen, each
\* with its inverse.
InverseTable ==
    UNION { { << p[1], p[2] >>, << p[2], p[1] >>,
              << NegMod(p[1]), NegMod(p[2]) >>, << NegMod(p[2]), NegMod(p[1]) >> } :
            p \in { << Power(Scalar(2), a), Power(InvTwo, a) >> :
                      a \in 0..MaxInvertLen } }

\* An inversion that returns its argument.
InvertSkipped(x) == x

\* Scalar::invert of curve25519_dalek on a nonzero scalar of the table.
ScalarInvert(x) == (CHOOSE p \in InverseTable : p[1] = x)[2]

\* SpecializedOps::batch_invert: err, or the inverses.
batch_invert(scalars) ==
    IF scalars = << >> THEN [ err |-> FALSE, value |-> << >> ]
    ELSE IF \E i \in 1..Len(scalars) : scalars[i] = Zero
         THEN [ err |-> TRUE, value |-> << >> ]
    ELSE
      LET n == Len(scalars)
          \* acc after the forward pass has taken i scalars; products[i] is
          \* acc[i - 1].
          acc[i \in 0..n] ==
              IF i = 0 THEN One ELSE ScalarMul(acc[i - 1], scalars[i])
          \* inv_acc when the backward pass computes results[i].
          inv_acc[i \in 1..n] ==
              IF i = n THEN ScalarInvert(acc[n])
              ELSE ScalarMul(inv_acc[i + 1], scalars[i + 1])
      IN  [ err |-> FALSE,
            value |-> [ i \in 1..n |-> ScalarMul(acc[i - 1], inv_acc[i]) ] ]

\* ------------------------------------------------------------------------
\* The R1CS builder and verifier (constraint_system.rs).  Variables are
\* numbered from 0, as in the code; the witness is a sequence, so variable v
\* is witness[v + 1].

ConstraintSystemBuilderNew ==
    [ constraints |-> << >>, num_variables |-> 0, public_inputs |-> << >> ]

\* add_variable: the builder it leaves (the id it returns is the
\* num_variables of the builder it was called on).
add_variable(builder) == [ builder EXCEPT !.num_variables = @ + 1 ]

add_public_input(builder, value) ==
    [ add_variable(builder) EXCEPT !.public_inputs = Append(@, value) ]

add_addition_constraint(builder, a, b, c) ==
    [ builder EXCEPT !.constraints =
        Append(@, [ a |-> << << a, One >>, << b, One >> >>,
                    b |-> << << 0, One >> >>,
                    c |-> << << c, One >> >> ]) ]

add_linear_constraint(builder, terms) ==
    [ builder EXCEPT !.constraints =
        Append(@, [ a |-> terms, b |-> << << 0, One >> >>, c |-> << >> ]) ]

build(builder, witness) ==
    [ num_constraints |-> Len(builder.constraints),
      num_variables |-> builder.num_variables,
      constraints |-> builder.constraints,
      public_inputs |-> builder.public_inputs,
      witness |-> witness ]

\* R1CSVerifier::evaluate_linear_combination, from the running result on:
\* the value, or err where a variable index is not below witness.len().
RECURSIVE evaluate_linear_combination(_, _, _)
evaluate_linear_combination(coeffs, witness, result) ==
    IF coeffs = << >> THEN [ err |-> FALSE, value |-> result ]
    ELSE LET var_index == Head(coeffs)[1]
             coeff == Head(coeffs)[2]
         IN  IF var_index >= Len(witness) THEN [ err |-> TRUE, value |-> Zero ]
             ELSE evaluate_linear_combination(
                    Tail(coeffs), witness,
                    AddMod(result, ScalarMul(coeff, witness[var_index + 1])))

\* R1CSVerifier::verify_constraints: "Err", "False" or "True".
verify_constraints(cs) ==
    IF Len(cs.witness) < cs.num_variables THEN "Err"
    ELSE
      LET verdict(constraint) ==
            LET a_val == evaluate_linear_combination(constraint.a, cs.witness, Zero)
                b_val == evaluate_linear_combination(constraint.b, cs.witness, Zero)
                c_val == evaluate_linear_combination(constraint.c, cs.witness, Zero)
            IN  IF a_val.err \/ b_val.err \/ c_val.err THEN "Err"
                ELSE IF ScalarMul(a_val.value, b_val.value) # c_val.value
                     THEN "False"
                ELSE "True"
          failing == { j \in 1..Len(cs.constraints) :
                         verdict(cs.constraints[j]) # "True" }
      IN  IF failing = {} THEN "True"
          ELSE verdict(cs.constraints[CHOOSE j \in failing :
                                        \A k \in failing : j <= k])

\* ------------------------------------------------------------------------
\* The library functions on their own: one call, on arguments drawn at the
\* start.

\* pedersen_commit: two values, two blindings, and whether init_curve_ops
\* has run (as it has in every instruction of the program).
PedersenInputs ==
    { [ fn |-> "pedersen_commit", initialized |-> b, v1 |-> v1, r1 |-> r[1],
        v2 |-> v2, r2 |-> r[2] ] :
        b \in BOOLEAN, v1 \in { Scalar(42), Scalar(255), NegMod(One) },
        v2 \in { Scalar(58), Scalar(1) },
        r \in { << Scalar(123), Scalar(77) >>, << Scalar(255), Scalar(1) >> } }

\* verify_range_proof: a verifier with n generators, a proof with l_len and
\* r_len points whose challenge-dependent checks would pass, the bit length
\* 2^rounds, and the build's overflow-checks setting.  The lengths go up to
\* MaxRounds, and from UsizeBits - 1 to UsizeBits + MaxRounds.
MaxRounds == 6

ShapeInputs ==
    { [ fn |-> "verify_range_proof", n |-> n, rounds |-> rounds,
        l_len |-> l_len, r_len |-> l_len + d, overflow_checks |-> b ] :
        n \in { 16, 64 }, rounds \in { 3, 4, 5 },
        l_len \in (0..MaxRounds) \cup ((UsizeBits - 1)..(UsizeBits + MaxRounds)),
        d \in { 0, 1 }, b \in BOOLEAN }

\* verify_constraints: a system and a witness.  The systems: "addition" is
\* a + b = c and "linear" is a + b - c = 0 over three variables, after
\* `first` other variables; "both" has the two constraints; "public" is the
\* system of test_constraint_system_verification, input1 + input2 - output -
\* fee = 0 with fee a public input (variable 3).
WitnessValues == { Scalar(0), Scalar(1), Scalar(2), Scalar(3) }

PublicFee == Scalar(1)

R1CSInputs ==
    { [ fn |-> "verify_constraints", system |-> sys, first |-> 0,
        witness |-> << a, b, c >> ] :
        sys \in { "addition", "linear" }, a \in WitnessValues,
        b \in WitnessValues, c \in WitnessValues }
    \cup { [ fn |-> "verify_constraints", system |-> sys, first |-> 1,
             witness |-> << w0, Scalar(1), b, Scalar(3) >> ] :
             sys \in { "addition", "linear", "both" }, w0 \in WitnessValues,
             b \in { Scalar(1), Scalar(2) } }
    \cup { [ fn |-> "verify_constraints", system |-> "public", first |-> 0,
             witness |-> w ] :
             w \in { << Scalar(50), Scalar(30), Scalar(79) >>,
                     << Scalar(50), Scalar(30), Scalar(80) >>,
                     << Scalar(50), Scalar(30), Scalar(79), PublicFee >>,
                     << Scalar(50), Scalar(30), Scalar(79), Scalar(2) >>,
                     << Scalar(0), Scalar(30), Scalar(7), PublicFee >>,
                     << Scalar(1), Scalar(1), Scalar(1) >> } }

\* The builder calls that make the system of an input.
RECURSIVE AddVariables(_, _)
AddVariables(builder, count) ==
    IF count = 0 THEN builder ELSE AddVariables(add_variable(builder), count - 1)

BuiltSystem(i) ==
    LET a == i.first
        b == i.first + 1
        c == i.first + 2
        three == AddVariables(ConstraintSystemBuilderNew, i.first + 3)
        terms == << << a, One >>, << b, One >>, << c, NegMod(One) >> >>
    IN  IF i.system = "addition"
        THEN build(add_addition_constraint(three, a, b, c), i.witness)
        ELSE IF i.system = "linear"
        THEN build(add_linear_constraint(three, terms), i.witness)
        ELSE IF i.system = "both"
        THEN build(add_linear_constraint(add_addition_constraint(three, a, b, c),
                                         terms),
                   i.witness)
        ELSE build(add_linear_constraint(
                     add_public_input(three, PublicFee),
                     Append(terms, << 3, NegMod(One) >>)),
                   i.witness)

\* batch_invert: the vectors of up to MaxInvertLen scalars among 0, 2, 1/2
\* and -1.
RECURSIVE Vectors(_, _)
Vectors(S, len) ==
    IF len = 0 THEN { << >> }
    ELSE { Append(v, x) : v \in Vectors(S, len - 1), x \in S }

InvertInputs ==
    { [ fn |-> "batch_invert", scalars |-> v ] :
        v \in UNION { Vectors({ Zero, Scalar(2), InvTwo, NegMod(One) }, len) :
                        len \in 0..MaxInvertLen } }

CalcInputs == PedersenInputs \cup ShapeInputs \cup R1CSInputs \cup InvertInputs

InitCalc ==
    /\ accounts = [ k \in Acct |-> NoAccount ]
    /\ pendings = [ k \in Acct |-> NoPending ]
    /\ nonces = [ n \in NonceAcct |-> NoNonce ]
    /\ global = NoGlobal
    /\ now = 0
    /\ steps = 0
    /\ last = [ op |-> "None", k |-> 0, amount |-> Zero, public_key |-> Zero,
                t |-> 0, pre |-> << >>, result |-> "Ok", token |-> NoToken ]
    /\ ts = TranscriptStart
    /\ sm = NoScalarMul
    /\ \E input \in CalcInputs : calc = [ NoCalc EXCEPT !.input = input ]

\* The call of fn on the arguments drawn, leaving result.
Returned(fn, result) ==
    /\ calc.op = "none"
    /\ calc.input.fn = fn
    /\ calc' = [ calc EXCEPT !.op = fn, !.result = result ]
    /\ UNCHANGED << accounts, pendings, nonces, global, now, steps, last, ts, sm >>

\* The sum of two commitments, and the commitment to the sums
\* (test_cryptographic_operations).
CommitSum ==
    LET i == calc.input
        commit(value, blinding) ==
            IF i.initialized THEN PedersenCommit(value, blinding)
            ELSE PedersenCommitFallback(value, blinding)
    IN  Returned("pedersen_commit",
                 [ sum |-> PointAdd(commit(i.v1, i.r1), commit(i.v2, i.r2)),
                   expected |-> commit(AddMod(i.v1, i.v2), AddMod(i.r1, i.r2)) ])

\* BulletproofVerifier::new(n).verify_range_proof on the commitment C1.
RangeProofShape ==
    LET i == calc.input
        range_ok == IF i.rounds = 5 THEN RangeConstraintVerdict[C1]
                    ELSE RangeConstraintByLength[<< i.rounds, C1 >>]
    IN  Returned("verify_range_proof",
                 verify_range_proof(i.n, C1,
                                    Proof(TRUE, i.l_len, i.r_len, TRUE, TRUE),
                                    range_ok, 2 ^ i.rounds, i.overflow_checks))

\* R1CSVerifier::new(builder.build(witness)).verify_constraints().
VerifyConstraints ==
    Returned("verify_constraints", verify_constraints(BuiltSystem(calc.input)))

\* SpecializedOps::batch_invert(&scalars).
BatchInvert == Returned("batch_invert", batch_invert(calc.input.scalars))

NextCalc ==
    \/ CommitSum
    \/ RangeProofShape
    \/ VerifyConstraints
    \/ BatchInvert

SpecCalc == InitCalc /\ [][NextCalc]_vars

\* ------------------------------------------------------------------------
\* Properties.  Each is about the last instruction processed: last.pre is the
\* ledger it started from, the current ledger is the one it left (Tick changes
\* neither).

\* The last instruction was op and returned Ok.
Succeeded(op) == last.op = op /\ last.result = "Ok"

\* epoch(now) is defined for the last instruction: the global state existed
\* with a positive epoch length.
LastEpochDefined == last.pre.global.exists /\ last.pre.global.epoch_length > 0

\* epoch(now) at the last instruction.
LastEpoch == Epoch(last.t, last.pre.global)

\* C1: after a RollOver on a registered account whose last_epoch < epoch(now),
\* the stored settled commitments are the old settled plus the old pending
\* (on L and on R), the stored pending is (O, O) and the stored last_epoch is
\* epoch(now).
C1_RollOverSettlesPending ==
    ( /\ Succeeded("RollOver")
      /\ last.pre.accounts[last.k].is_registered
      /\ last.pre.accounts[last.k].last_rollover < LastEpoch )
    => /\ accounts[last.k].commitment_left =
              AddMod(last.pre.accounts[last.k].commitment_left,
                     last.pre.pendings[last.k].commitment_left)
       /\ accounts[last.k].commitment_right =
              AddMod(last.pre.accounts[last.k].commitment_right,
                     last.pre.pendings[last.k].commitment_right)
       /\ pendings[last.k].commitment_left = Identity
       /\ pendings[last.k].commitment_right = Identity
       /\ accounts[last.k].last_rollover = LastEpoch

\* C4: whenever Register, Fund, Transfer, Burn or RollOver returns an error,
\* every ledger record there was before the instruction (account, pending
\* account, nonce record) equals its value before the instruction.
C4_ErrorLeavesLedger ==
    ( /\ last.op \in { "Register", "Fund", "Transfer", "Burn", "RollOver" }
      /\ last.result # "Ok" )
    => /\ \A k \in Acct :
            last.pre.accounts[k].exists => accounts[k] = last.pre.accounts[k]
       /\ \A k \in Acct :
            last.pre.pendings[k].exists => pendings[k] = last.pre.pendings[k]
       /\ \A n \in NonceAcct :
            last.pre.nonces[n].exists => nonces[n] = last.pre.nonces[n]

\* C7: a successful Fund(amount) on a registered account with
\* last_epoch = epoch(now) adds exactly amount * G to C_pending.L and leaves
\* C_pending.R and the account record (C_settled, last_epoch, pk, registered)
\* unchanged.
C7_FundAddsAmountG ==
    ( /\ Succeeded("Fund")
      /\ last.pre.accounts[last.k].last_rollover = LastEpoch )
    => /\ pendings[last.k].commitment_left =
              AddMod(last.pre.pendings[last.k].commitment_left,
                     PointMul(G, last.amount))
       /\ pendings[last.k].commitment_right =
              last.pre.pendings[last.k].commitment_right
       /\ accounts[last.k] = last.pre.accounts[last.k]

\* C8: a Fund, Transfer or Burn, whatever it returns, leaves the stored
\* C_settled (and the rest of the account record) of every account with
\* last_epoch = epoch(now) as it was.
C8_SettledUntouched ==
    ( /\ last.op \in { "Fund", "Transfer", "Burn" }
      /\ LastEpochDefined )
    => \A k \in Acct :
          ( /\ last.pre.accounts[k].exists
            /\ last.pre.accounts[k].last_rollover = LastEpoch )
          => accounts[k] = last.pre.accounts[k]

\* A successful Fund in the epoch of the account's last_epoch that changed the
\* pending commitment.
C8_Witness ==
    /\ Succeeded("Fund")
    /\ last.pre.accounts[last.k].last_rollover = LastEpoch
    /\ pendings[last.k].commitment_left
           # last.pre.pendings[last.k].commitment_left

\* C9: for a registered account with last_epoch < epoch(now), a successful
\* Fund(a) leaves the stored account and pending records that RollOver
\* followed by Fund(a) at the same time leaves.
C9_FundIsRollOverThenFund ==
    ( /\ Succeeded("Fund")
      /\ last.pre.accounts[last.k].is_registered
      /\ last.pre.accounts[last.k].last_rollover < LastEpoch )
    => LET rolled == process_rollover(last.pre, last.t, last.k)
           funded == process_fund(rolled.ledger, last.t, last.k, TRUE,
                                  last.amount, TRUE)
       IN  /\ rolled.result = "Ok"
           /\ funded.result = "Ok"
           /\ accounts[last.k] = funded.ledger.accounts[last.k]
           /\ pendings[last.k] = funded.ledger.pendings[last.k]

\* A successful Fund of a nonzero amount with a rollover due on an account
\* whose pending commitment was not the identity.
C9_Witness ==
    /\ Succeeded("Fund")
    /\ last.pre.accounts[last.k].is_registered
    /\ last.pre.accounts[last.k].last_rollover < LastEpoch
    /\ last.pre.pendings[last.k].commitment_left # Identity
    /\ last.amount # Zero

C11_RegisterPendingOwnership ==
    Succeeded("Register")
    => /\ pendings[last.k].exists
       /\ pendings[last.k].commitment_left = last.public_key
       /\ pendings[last.k].commitment_right = G
       /\ accounts[last.k].exists
       /\ accounts[last.k].is_registered
       /\ accounts[last.k].public_key = last.public_key

\* A successful Register of the second public key on an account pair that
\* had no data.
C11_Witness ==
    /\ Succeeded("Register")
    /\ last.public_key = PkB
    /\ ~last.pre.accounts[last.k].exists
    /\ ~last.pre.pendings[last.k].exists

C13_AmountRange ==
    /\ \A k \in Acct, token_ok \in BOOLEAN :
          /\ \A amount \in OutOfRangeAmounts :
                LET r == process_fund(Ledger, now, k, TRUE, amount, token_ok)
                IN  r.result = "TransferAmountOutOfRange" /\ r.ledger = Ledger
          /\ \A signer \in BOOLEAN :
                process_fund(Ledger, now, k, signer, MAX_TRANSFER_AMOUNT, token_ok).result
                    # "TransferAmountOutOfRange"
    /\ \A k \in Acct, n \in NonceAcct, nonce \in Nonces, proof \in ProofInputs :
          /\ \A amount \in OutOfRangeAmounts :
                LET r == process_burn(Ledger, now, k, n, TRUE, amount, nonce, proof, TRUE)
                IN  r.result = "TransferAmountOutOfRange" /\ r.ledger = Ledger
          /\ process_burn(Ledger, now, k, n, TRUE, MAX_TRANSFER_AMOUNT, nonce, proof,
                          TRUE).result
                 # "TransferAmountOutOfRange"
    /\ last.op \in { "Fund", "Burn" }
       => /\ last.result = "TransferAmountOutOfRange"
             => /\ last.amount = MaxPlusOne
                /\ Ledger = last.pre
          /\ last.amount = MaxPlusOne
             => last.result \in { "TransferAmountOutOfRange",
                                  "MissingRequiredSignature" }

\* A Burn of 2^32 rejected as out of range, on an account that was
\* registered.
C13_Witness ==
    /\ last.op = "Burn"
    /\ last.amount = MaxPlusOne
    /\ last.result = "TransferAmountOutOfRange"
    /\ last.pre.accounts[last.k].is_registered

\* The accounts of a Transfer all hold data, its commitments decode and there
\* is one per participant.
TransferWellFormed(L, inp) ==
    /\ L.accounts[inp.b].exists
    /\ Len(inp.slots) = Len(inp.public_keys)
    /\ Len(inp.slots) = Len(inp.commitments_c)
    /\ \A i \in 1..Len(inp.slots) :
          L.accounts[inp.slots[i]].exists /\ Decodes(inp.commitments_c[i])
    /\ Decodes(inp.commitment_d)

\* C14: a signed Fund or Burn (amount in range, nonce unused, global state
\* initialised) on an account that holds registered = false returns
\* AccountNotRegistered; and so does a Transfer, once its proof has verified
\* and its nonce was found unused, when the beneficiary or a slot account
\* holds registered = false.
C14_UnregisteredRejected ==
    /\ \A k \in Acct :
          ( accounts[k].exists /\ ~accounts[k].is_registered )
          => /\ \A amount \in Amounts \ { MaxPlusOne }, token_ok \in BOOLEAN :
                   process_fund(Ledger, now, k, TRUE, amount, token_ok).result
                       = "AccountNotRegistered"
             /\ \A n \in NonceAcct, nonce \in Nonces, inp \in BurnInputs :
                   ( /\ inp.signer
                     /\ inp.amount # MaxPlusOne
                     /\ ~NonceCheck(Ledger, n).seen
                     /\ global.exists
                     /\ global.epoch_length # 0 )
                   => process_burn(Ledger, now, k, n, TRUE, inp.amount, nonce,
                                   inp.proof, inp.token_ok).result
                          = "AccountNotRegistered"
    /\ \A inp \in TransferInputs :
          ( /\ TransferWellFormed(Ledger, inp)
            /\ ~NonceCheck(Ledger, inp.n).seen
            /\ global.exists
            /\ global.epoch_length # 0
            /\ \/ ~accounts[inp.b].is_registered
               \/ \E i \in 1..Len(inp.slots) : ~accounts[inp.slots[i]].is_registered )
          => TransferAccounts(NonceCheck(Ledger, inp.n).ledger, now, inp).result
                 = "AccountNotRegistered"
    /\ ( last.op \in { "Fund", "Burn", "Transfer" }
         /\ last.result = "AccountNotRegistered" )
       => /\ last.pre.accounts[last.k].exists
          /\ ~last.pre.accounts[last.k].is_registered

\* A Burn that returned AccountNotRegistered, on an account with data and
\* registered = false, while another account was registered.
C14_Witness ==
    /\ last.op = "Burn"
    /\ last.result = "AccountNotRegistered"
    /\ last.pre.accounts[last.k].exists
    /\ ~last.pre.accounts[last.k].is_registered
    /\ \E k \in Acct : last.pre.accounts[k].is_registered

\* The anonymity set of a Transfer is empty, holds one public key twice, or
\* has a size that is not a power of two.
BadAnonymitySet(public_keys) ==
    LET m == Len(public_keys)
    IN  \/ m = 0
        \/ \E i, j \in 1..m : i # j /\ public_keys[i] = public_keys[j]
        \/ ~ \E e \in 0..5 : m = 2 ^ e

\* C15: with the global state initialised and every account registered, a
\* signed Transfer whose participant list is empty, whose anonymity set holds
\* two equal public keys, or whose anonymity-set size is not a power of two
\* returns InvalidProofStructure and changes no state.
C15_BadShapeRejected ==
    \A inp \in TransferInputs :
        ( /\ inp.signer
          /\ BadAnonymitySet(inp.public_keys)
          /\ global.exists
          /\ global.epoch_length # 0
          /\ \A k \in Acct : accounts[k].is_registered )
        => LET r == process_transfer(Ledger, now, inp)
           IN  r.result = "InvalidProofStructure" /\ r.ledger = Ledger

\* C16: when RollOver on an account has returned Ok, a second RollOver on the
\* same account in the same epoch, with no instruction in between, returns Ok
\* and leaves the stored settled commitments, pending commitments and
\* last_rollover (the whole ledger) as the first left them.
C16_RollOverIdempotent ==
    /\ \A k \in Acct :
          LET first == process_rollover(Ledger, now, k)
          IN  first.result = "Ok"
              => \A t \in now..MaxTime :
                    Epoch(t, global) = Epoch(now, global)
                    => process_rollover(first.ledger, t, k) = first
    /\ ( Succeeded("RollOver") /\ Epoch(now, global) = Epoch(last.t, global) )
       => process_rollover(Ledger, now, last.k) = Res(Ledger, "Ok", NoToken)

\* A RollOver after an epoch boundary that has cleared a pending commitment
\* (pk, G), so that a second RollOver finds last_rollover below the epoch
\* again.
C16_Witness ==
    /\ Succeeded("RollOver")
    /\ last.pre.accounts[last.k].last_rollover < Epoch(last.t, global)
    /\ last.pre.pendings[last.k].commitment_right = G
    /\ pendings[last.k].commitment_right = Identity

\* The histories that differ from calls in one call.
Variants(calls) ==
    { [ calls EXCEPT ![i] = c ] : i \in 1..Len(calls), c \in TranscriptCalls }
        \ { calls }

\* C17: a transcript whose history differs from this one's in an earlier
\* call returns a different scalar for every next challenge; and two
\* successive challenge_scalar calls with one label on this transcript have
\* returned different scalars.
C17_HistorySensitive ==
    /\ \A other \in Variants(ts.calls), l \in Labels :
          challenge_scalar(Run(TranscriptNew, << >>, other).transcript, l).scalar
              # challenge_scalar(ts.transcript, l).scalar
    /\ \A i \in 1..(Len(ts.calls) - 1) :
          ( /\ ts.calls[i].op = "challenge_scalar"
            /\ ts.calls[i + 1] = ts.calls[i] )
          => ts.scalars[i + 1] # ts.scalars[i]

\* What a sequence of calls appends: its (label, payload bytes) pairs.
Appended(calls) ==
    [ i \in 1..Len(calls) |->
        << calls[i].label,
           IF calls[i].op = "append_point" THEN to_bytes[calls[i].payload]
           ELSE as_bytes(calls[i].payload) >> ]

AppendCalls == { c \in TranscriptCalls : c.op # "challenge_scalar" }

AppendSequences ==
    { << >> } \cup { << c >> : c \in AppendCalls }
        \cup { << c, d >> : c, d \in AppendCalls }

\* C18: when nothing but appends has been made on this transcript, every
\* other sequence of (label, payload) appends feeds the hash, on the next
\* challenge label, a byte string other than the one this transcript feeds.
C18_AppendsUnambiguous ==
    ( /\ Len(ts.calls) <= 2
      /\ \A i \in 1..Len(ts.calls) : ts.calls[i].op # "challenge_scalar" )
    => \A other \in AppendSequences, l \in Labels :
          Appended(other) # Appended(ts.calls)
          => Update(Run(TranscriptNew, << >>, other).transcript, l).hasher
                 # Update(ts.transcript, l).hasher

\* C19: the challenges of the verifier for an instruction depend on its
\* nonce and on its epoch: the same commitment and proof under another nonce
\* or in another epoch give other scalars for y, z and x.
C19_ChallengesBoundToNonceAndEpoch ==
    ts.instruction # NoInstruction
    => \A nonce \in Nonces, epoch \in 0..MaxTime :
          ( nonce # ts.instruction.nonce \/ epoch # ts.instruction.epoch )
          => LET calls == InstructionCalls(nonce, epoch, ts.calls[1].payload,
                                           ProofPoints(ts.calls[2].payload,
                                                       ts.calls[3].payload,
                                                       ts.calls[6].payload,
                                                       ts.calls[7].payload))
                 other == Run(TranscriptNew, << >>, calls).scalars
             IN  \A i \in { 4, 5, 8 } : other[i] # ts.scalars[i]

\* C20: PrecomputedTable::scalar_mul(s) on the table for P, and
\* fast_scalar_mul(P, s), return s * P (what P * s, the fall-back path,
\* returns).
C20_TableMulIsScalarMul ==
    sm.op # "none" => sm.result = PointMul(sm.point, sm.scalar)
\* C27: with the curve-ops manager initialised, verify_range_proof (32 bits
\* with verifiers of 32 and 64 generators; 2, 8 and 16 bits with 64
\* generators) returns Ok(true) for no commitment and no proof;
\* verify_transfer_proof and verify_burn_proof are false on every
\* instruction and every stored account, and no Transfer and no Burn returns
\* Ok.
C27_NoRangeProofAccepted ==
    /\ \A n \in { 32, 64 }, c \in RangeProofPoints, p \in ProofInputs :
          RangeVerdict(n, c, p) # "True"
    /\ \A x \in DOMAIN RangeConstraintByLength, t_hat_ok, ip_ok \in BOOLEAN :
          verify_range_proof(64, x[2], Proof(TRUE, x[1], x[1], t_hat_ok, ip_ok),
                             RangeConstraintByLength[x], 2 ^ x[1], FALSE) # "True"
    /\ \A a \in TransferShapes :
          ~verify_transfer_proof(a.proof, a.commitments_c, a.commitment_d,
                                 a.public_keys)
    /\ \A k \in Acct, inp \in BurnInputs :
          accounts[k].exists => ~verify_burn_proof(inp.proof, accounts[k], inp.amount)
    /\ ~Succeeded("Transfer")
    /\ ~Succeeded("Burn")

\* A Burn of 5 by its signer, with a proof of the right shape whose
\* challenge-dependent checks would pass, on a registered account whose
\* settled commitment after the rollover is not the identity and covers the
\* amount: rejected with BurnProofVerificationFailed.
C27_Witness ==
    /\ last.op = "Burn"
    /\ last.result = "BurnProofVerificationFailed"
    /\ last.amount = Scalar(5)
    /\ LastEpochDefined
    /\ last.pre.accounts[last.k].is_registered
    /\ LET ro == rollover_account(last.pre.accounts[last.k],
                                  last.pre.pendings[last.k], LastEpoch)
       IN  /\ ro.account.commitment_left # Identity
           /\ verify_sufficient_balance(ro.account.commitment_left,
                                        AmountCommitment[last.amount])

\* C30: the GlobalState that Initialize stores has epoch_length > 0, and no
\* Fund, Transfer, Burn or RollOver that loaded the GlobalState aborts on the
\* division now / epoch_length.
C30_EpochLengthPositive ==
    /\ global.exists => global.epoch_length > 0
    /\ ( /\ last.op \in { "Fund", "Transfer", "Burn", "RollOver" }
         /\ last.pre.global.exists )
       => /\ last.pre.global.epoch_length # 0
          /\ last.result # "Panic"

\* C28: the stored ZerosolAccount of a registered account is the record that
\* Register wrote (public_key, is_registered, last_rollover 0, settled
\* commitments (O, O)); no instruction changes the record of an account that
\* was registered before it; Fund, Transfer, Burn and RollOver leave every
\* ZerosolAccount record and the GlobalState as they were.
C28_AccountWrittenAtRegistration ==
    /\ \A k \in Acct :
          (accounts[k].exists /\ accounts[k].is_registered)
          => accounts[k] = RegisterAccount(accounts[k].public_key)
    /\ \A k \in Acct :
          ( /\ last.op # "None"
            /\ last.pre.accounts[k].exists
            /\ last.pre.accounts[k].is_registered )
          => accounts[k] = last.pre.accounts[k]
    /\ last.op \in { "Fund", "Transfer", "Burn", "RollOver" }
       => /\ accounts = last.pre.accounts
          /\ global = last.pre.global

\* A Burn on a registered account with a rollover due: it cleared the stored
\* pending commitment and left the stored account as it was.
C28_Witness ==
    /\ last.op = "Burn"
    /\ LastEpochDefined
    /\ last.pre.accounts[last.k].is_registered
    /\ last.pre.accounts[last.k].last_rollover < LastEpoch
    /\ last.pre.pendings[last.k].commitment_left # Identity
    /\ pendings[last.k] = PendingAccountNew
    /\ accounts[last.k] = last.pre.accounts[last.k]

\* C26: every successful Fund(amount) on a registered account leaves the sum
\* C_settled.L + C_pending.L of the stored commitments equal to the sum before
\* it plus amount * G, and every successful RollOver on a registered account
\* leaves that sum as it was (so that after any sequence of them the sum is
\* the one after registration plus the funded amounts times G).
C26_ValueConserved ==
    /\ Succeeded("Fund")
       => AddMod(accounts[last.k].commitment_left,
                 pendings[last.k].commitment_left)
          = AddMod(AddMod(last.pre.accounts[last.k].commitment_left,
                          last.pre.pendings[last.k].commitment_left),
                   PointMul(G, last.amount))
    /\ (Succeeded("RollOver") /\ last.pre.accounts[last.k].is_registered)
       => AddMod(accounts[last.k].commitment_left,
                 pendings[last.k].commitment_left)
          = AddMod(last.pre.accounts[last.k].commitment_left,
                   last.pre.pendings[last.k].commitment_left)

\* C21: for all scalars v1, r1, v2, r2, pedersen_commit(v1, r1) +
\* pedersen_commit(v2, r2) is pedersen_commit(v1 + v2, r1 + r2).
C21_PedersenHomomorphic ==
    calc.op = "pedersen_commit" => calc.result.sum = calc.result.expected

\* C22: batch_invert of a vector of nonzero scalars returns a vector of the
\* same length with s[i] * r[i] = 1 for every i (the empty vector for the
\* empty vector); if a scalar is zero it returns an error and no inverses.
C22_BatchInvertInverts ==
    calc.op = "batch_invert"
    => LET scalars == calc.input.scalars
           r == calc.result
       IN  IF \E i \in 1..Len(scalars) : scalars[i] = Zero
           THEN r.err /\ r.value = << >>
           ELSE /\ ~r.err
                /\ Len(r.value) = Len(scalars)
                /\ \A i \in 1..Len(scalars) :
                      PointMul(scalars[i], r.value[i]) = One

\* batch_invert of (2, -1, 1/2) has returned (1/2, -1, 2).
C22_Witness ==
    /\ calc.op = "batch_invert"
    /\ calc.input.scalars = << Scalar(2), NegMod(One), InvTwo >>
    /\ ~calc.result.err
    /\ calc.result.value = << InvTwo, NegMod(One), Scalar(2) >>

\* C23: verify_range_proof rejects on shape (an error, or the abort of the
\* shift), without going on to any equation, every proof with
\* len(L) # len(R), with 2^len(L) # the bit length, or with a bit length
\* above the verifier's generator count, whatever len(L) is.
C23_ShapeRejected ==
    ( /\ calc.op = "verify_range_proof"
      /\ \/ calc.input.l_len # calc.input.r_len
         \/ calc.input.l_len # calc.input.rounds
         \/ 2 ^ calc.input.rounds > calc.input.n )
    => calc.result \in { "Err", "Panic" }

\* The constraints of the system of input i hold on the assignment w (a
\* sequence with one value per variable): a + b = c for an addition
\* constraint, the sum of coeff * variable = 0 for a linear one.
ConstraintsHold(i, w) ==
    LET a == w[i.first + 1]
        b == w[i.first + 2]
        c == w[i.first + 3]
    IN  IF i.system = "public"
        THEN AddMod(AddMod(a, b), NegMod(AddMod(c, w[4]))) = Zero
        ELSE AddMod(a, b) = c

\* C24: verify_constraints on a system of addition and linear constraints
\* (without public inputs) and a witness with a value for every variable
\* returns Ok(true) exactly when every constraint holds on the witness:
\* w[a] + w[b] = w[c], respectively the sum of coeff * w[var] = 0.
C24_ConstraintsMeanWhatTheySay ==
    ( /\ calc.op = "verify_constraints"
      /\ calc.input.system # "public" )
    => (calc.result = "True" <=> ConstraintsHold(calc.input, calc.input.witness))

\* C25: for a system with a public input, given a witness with the values of
\* the add_variable variables alone, verify_constraints returns Ok(true) when
\* the constraints hold with the public variable taken from public_inputs.
C25_PublicInputsFromSystem ==
    ( /\ calc.op = "verify_constraints"
      /\ calc.input.system = "public"
      /\ Len(calc.input.witness) = 3
      /\ ConstraintsHold(calc.input, Append(calc.input.witness, PublicFee)) )
    => calc.result = "True"

====
